---- MODULE Spec2Model ----
(***************************************************************************)
(* FritterStaticMiddleware: the static file middleware of                  *)
(* @fritter/static (mount-aware version), its fileDataCache, the           *)
(* directory iteration, the re-stat of cached entries, the response        *)
(* decider and getCacheBustedPath.                                         *)
(*                                                                         *)
(* Strings are sequences of one-character strings, so that startsWith,     *)
(* slice, normalize and join work on characters as the code's do.          *)
(***************************************************************************)
EXTENDS Integers, Sequences, FiniteSets, TLC

\* ------------------------------------------------------------------------
\* String primitives (String.prototype.startsWith / slice)
\* ------------------------------------------------------------------------

StartsWith(s, prefix) ==
    /\ Len(prefix) <= Len(s)
    /\ SubSeq(s, 1, Len(prefix)) = prefix

Slice(s, n) == SubSeq(s, n + 1, Len(s))

Last(s) == s[Len(s)]

\* ------------------------------------------------------------------------
\* decodeURIComponent.  A "%" must be followed by two hex digits; anything
\* else throws URIError.  The escapes the request paths of this model use
\* are %2e / %2E (".") and %2f / %2F ("/").
\* ------------------------------------------------------------------------

HexPair(a, b) ==
    IF a = "2" /\ b \in {"e", "E"} THEN "."
    ELSE IF a = "2" /\ b \in {"f", "F"} THEN "/"
    ELSE ""

RECURSIVE DecodeFrom(_, _, _)
DecodeFrom(s, i, acc) ==
    IF i > Len(s) THEN [ok |-> TRUE, value |-> acc]
    ELSE IF s[i] # "%" THEN DecodeFrom(s, i + 1, Append(acc, s[i]))
    ELSE IF i + 2 > Len(s) \/ HexPair(s[i + 1], s[i + 2]) = ""
         THEN [ok |-> FALSE, value |-> <<>>]
    ELSE DecodeFrom(s, i + 3, Append(acc, HexPair(s[i + 1], s[i + 2])))

decodeURIComponent(s) == DecodeFrom(s, 1, <<>>)

\* ------------------------------------------------------------------------
\* node:path (posix): normalize, join, basename
\* ------------------------------------------------------------------------

RECURSIVE SplitFrom(_, _, _, _)
SplitFrom(s, i, cur, acc) ==
    IF i > Len(s) THEN Append(acc, cur)
    ELSE IF s[i] = "/" THEN SplitFrom(s, i + 1, <<>>, Append(acc, cur))
    ELSE SplitFrom(s, i + 1, Append(cur, s[i]), acc)

\* The segments of s between its "/" separators (empty segments included).
Split(s) == SplitFrom(s, 1, <<>>, <<>>)

DotDot == <<".", ".">>

\* normalizeString: drops "" and ".", resolves "..", keeps a leading ".."
\* only when allowAboveRoot.
RECURSIVE NormalizeSegs(_, _, _, _)
NormalizeSegs(segs, i, res, allowAboveRoot) ==
    IF i > Len(segs) THEN res
    ELSE LET seg == segs[i] IN
         IF seg = <<>> \/ seg = <<".">>
         THEN NormalizeSegs(segs, i + 1, res, allowAboveRoot)
         ELSE IF seg = DotDot
         THEN IF Len(res) > 0 /\ Last(res) # DotDot
              THEN NormalizeSegs(segs, i + 1, SubSeq(res, 1, Len(res) - 1), allowAboveRoot)
              ELSE IF allowAboveRoot
              THEN NormalizeSegs(segs, i + 1, Append(res, seg), allowAboveRoot)
              ELSE NormalizeSegs(segs, i + 1, res, allowAboveRoot)
         ELSE NormalizeSegs(segs, i + 1, Append(res, seg), allowAboveRoot)

RECURSIVE JoinSegs(_, _)
JoinSegs(segs, i) ==
    IF i > Len(segs) THEN <<>>
    ELSE IF i = Len(segs) THEN segs[i]
    ELSE segs[i] \o <<"/">> \o JoinSegs(segs, i + 1)

\* path.posix.normalize
normalize(p) ==
    IF Len(p) = 0 THEN <<".">>
    ELSE LET isAbsolute == p[1] = "/"
             trailingSeparator == Last(p) = "/"
             body == JoinSegs(NormalizeSegs(Split(p), 1, <<>>, ~isAbsolute), 1)
         IN  IF Len(body) = 0
             THEN IF isAbsolute THEN <<"/">>
                  ELSE IF trailingSeparator THEN <<".", "/">> ELSE <<".">>
             ELSE LET withSep == IF trailingSeparator THEN body \o <<"/">> ELSE body
                  IN  IF isAbsolute THEN <<"/">> \o withSep ELSE withSep

\* path.join(a, b)
join(a, b) ==
    IF Len(a) = 0 /\ Len(b) = 0 THEN <<".">>
    ELSE IF Len(a) = 0 THEN normalize(b)
    ELSE IF Len(b) = 0 THEN normalize(a)
    ELSE normalize(a \o <<"/">> \o b)

\* The non-empty segments of p.
RECURSIVE NonEmpty(_, _)
NonEmpty(segs, i) ==
    IF i > Len(segs) THEN <<>>
    ELSE IF segs[i] = <<>> THEN NonEmpty(segs, i + 1)
    ELSE <<segs[i]>> \o NonEmpty(segs, i + 1)

\* path.basename(p): the last component, trailing separators ignored.
basename(p) ==
    LET segs == NonEmpty(Split(p), 1)
    IN  IF Len(segs) = 0 THEN <<>> ELSE Last(segs)

\* ------------------------------------------------------------------------
\* mime-types lookup and compressible
\* ------------------------------------------------------------------------

RECURSIVE LastDot(_, _)
LastDot(s, i) ==
    IF i = 0 THEN 0
    ELSE IF s[i] = "." THEN i
    ELSE LastDot(s, i - 1)

\* extname("x." + path).slice(1): what follows the last "." of the basename.
extension(p) ==
    LET base == <<"x", ".">> \o basename(p)
    IN  Slice(base, LastDot(base, Len(base)))

\* mimeTypes.lookup(path) || "application/octet-stream"
mimeType(p) ==
    LET ext == extension(p)
    IN  IF ext = <<"c", "s", "s">> THEN "text/css"
        ELSE IF ext = <<"p", "n", "g">> THEN "image/png"
        ELSE "application/octet-stream"

\* isCompressible(type), from mime-db's "compressible" flags.
isCompressible(type) == type = "text/css"

\* ------------------------------------------------------------------------
\* Bounds of the model
\* ------------------------------------------------------------------------

\* Modification times are counted in half milliseconds, 0 .. MaxMtime, so
\* that stats.mtimeMs can be fractional while stats.mtime is a whole Date.
MaxMtime == 2

\* How many times the files on disk change during a behaviour.
MaxFsChanges == 1

\* Request slots (requests that can be in flight).
MaxInflight == 2

\* ------------------------------------------------------------------------
\* Paths, mounts and request inputs of the model
\* ------------------------------------------------------------------------

RootR  == <<"/", "r">>
RootRS == <<"/", "r", "s">>
RootS  == <<"/", "s">>
MountA == <<"/", "a">>

\* process.cwd(), and two other spellings of the roots /r and /s.
Cwd == <<"/">>
RootDotR == <<".", "/", "r">>
RootSTrailing == <<"/", "s", "/">>

XCss == <<"/", "x", ".", "c", "s", "s">>
YPng == <<"/", "y", ".", "p", "n", "g">>

FileRX  == RootR \o XCss
FileRSX == RootRS \o XCss
FileSX  == RootS \o XCss
FileRY  == RootR \o YPng

\* The paths on disk that can hold a file, and those of them that change.
DiskFiles == {FileRX, FileRSX, FileSX, FileRY}
Changing == {FileRX, FileSX}

\* The directories on disk (always present).
DiskDirs == {RootR, RootRS, RootS}

Dir(p) == [path |-> p, hasMountPath |-> FALSE, mountPath |-> <<>>]
Mounted(p, m) == [path |-> p, hasMountPath |-> TRUE, mountPath |-> m]

\* options.dirs: two plain directories; three directories mounted at /a.
DirsPlain == <<Dir(RootR), Dir(RootS)>>
DirsMounted == <<Mounted(RootR, MountA), Mounted(RootRS, MountA), Mounted(RootS, MountA)>>

\* One directory mounted at /a, with a plain directory behind it.
DirsMixed == <<Mounted(RootR, MountA), Dir(RootS)>>

\* Roots written with a trailing separator and relative to the working
\* directory: /s/ and ./r name the directories /s and /r.
DirsRelative == <<Dir(RootSTrailing), Dir(RootDotR)>>

Configs == {DirsPlain, DirsMounted, DirsMixed, DirsRelative}

Methods == {"GET", "HEAD", "POST"}

\* getPath(): URL pathnames, before percent-decoding.
RawPaths ==
    { XCss,
      MountA \o XCss,
      MountA \o <<".", ".">> \o RootRS \o XCss,
      MountA \o <<".", ".">> \o RootS \o XCss,
      YPng,
      <<"/", "%", "2", "e", "%", "2", "E">> \o XCss,
      <<"/">>,
      <<"/", "%">> }

\* The threshold of line 267: only files larger than this are gzipped.
GzipThreshold == 1024

Sizes == {GzipThreshold, GzipThreshold + 1}

Mtimes == 0 .. MaxMtime

cacheControlHeader == "public, max-age=0"

\* ------------------------------------------------------------------------
\* The file system
\* ------------------------------------------------------------------------

Absent == [kind |-> "none", mtimeMs |-> 0, size |-> 0]
RegularFile(m, s) == [kind |-> "file", mtimeMs |-> m, size |-> s]
Directory(m) == [kind |-> "dir", mtimeMs |-> m, size |-> 0]

StripTrailing(p) ==
    IF Len(p) > 1 /\ Last(p) = "/" THEN SubSeq(p, 1, Len(p) - 1) ELSE p

\* The absolute path the file system takes p for: a relative path is
\* relative to the working directory.
Resolve(p) == IF Len(p) > 0 /\ p[1] = "/" THEN p ELSE normalize(Cwd \o p)

NoStats == [ok |-> FALSE, isFile |-> FALSE, mtimeMs |-> 0, size |-> 0]

\* fs.promises.stat / fs.statSync on disk d: ok = FALSE is a thrown error.
Stat(d, p) ==
    LET a == Resolve(p)
        q == StripTrailing(a)
    IN
    IF q \in DiskDirs
    THEN [ok |-> TRUE, isFile |-> FALSE, mtimeMs |-> 0, size |-> 0]
    ELSE IF q \in DiskFiles /\ d[q].kind = "dir"
    THEN [ok |-> TRUE, isFile |-> FALSE, mtimeMs |-> d[q].mtimeMs, size |-> 0]
    ELSE IF q \in DiskFiles /\ d[q].kind = "file" /\ q = a
    THEN [ok |-> TRUE, isFile |-> TRUE, mtimeMs |-> d[q].mtimeMs, size |-> d[q].size]
    ELSE NoStats

\* stats.mtime: the Date of stats.mtimeMs, rounded to whole milliseconds
\* (mtimeMs is in half milliseconds here).
DateOf(mtimeMs) == (mtimeMs + 1) \div 2

\* ------------------------------------------------------------------------
\* State
\* ------------------------------------------------------------------------

VARIABLES
    dirs,           \* this.dirs
    enableGzip,     \* this.enableGzip
    limit,          \* how many calls of execute the caller lets overlap
                    \* (1: requests are handled one after another)
    disk,           \* the files on disk
    nChanges,       \* how many times the disk has changed
    files,          \* the FritterStaticMiddlewareFile objects, by identity:
                    \* <<key, n>> is the n-th object created for a cache key
    fileDataCache,  \* this.fileDataCache: key -> identity of a file object
    req,            \* the calls of execute, one per slot
    busted          \* the last call of getCacheBustedPath and its result

vars == <<dirs, enableGzip, limit, disk, nChanges, files, fileDataCache, req, busted>>

Reqs == 1 .. MaxInflight

\* The response before execute has touched it.
NoResponse ==
    [ statusCode |-> 0, lastModified |-> -1, vary |-> FALSE,
      contentType |-> "", contentLength |-> -1, cacheControl |-> "",
      contentEncoding |-> "", body |-> "none", bodyPath |-> <<>> ]

\* file == null
NoFile == <<<<>>, 0>>

\* A slot with no call of execute in it.  path, hit, statted, startVer,
\* seenMtimeMs, isFresh, acceptsGzip, outcome and nextCalls record what the
\* call was given and did; the other fields are the locals of execute.
IdleReq ==
    [ pc |-> "idle", method |-> "", path |-> <<>>, requestedFilePath |-> <<>>,
      dirIdx |-> 0, onDiskFilePath |-> <<>>, stats |-> NoStats, file |-> NoFile,
      hit |-> FALSE, statted |-> <<>>, startVer |-> 0, seenMtimeMs |-> 0,
      isFresh |-> FALSE, acceptsGzip |-> FALSE,
      outcome |-> "none", nextCalls |-> 0, resp |-> NoResponse ]

NoBusted == [called |-> FALSE, input |-> <<>>, path |-> <<>>, hasQuery |-> FALSE, mtime |-> 0, dirIdx |-> 0]

Init ==
    /\ dirs \in Configs
    /\ enableGzip \in BOOLEAN
    /\ limit = 1
    /\ disk \in [DiskFiles -> {Absent, RegularFile(0, GzipThreshold + 1)}]
    /\ \A f \in DiskFiles \ {FileRX} : disk[f] # Absent
    /\ nChanges = 0
    /\ files = [id \in {} |-> 0]
    /\ fileDataCache = [k \in {} |-> 0]
    /\ req = [r \in Reqs |-> IdleReq]
    /\ busted = NoBusted

\* Nothing waits to be handed back to a caller.
Quiet ==
    /\ ~busted.called
    /\ \A r \in Reqs : req[r].pc # "done"

\* ------------------------------------------------------------------------
\* execute: the directory iteration
\* ------------------------------------------------------------------------

\* The mount-point test of one directory: the path the iteration goes on
\* with (requestedFilePath is reassigned, not a copy).
Stripped(dir, requestedFilePath) ==
    IF dir.hasMountPath
    THEN Slice(requestedFilePath, Len(dir.mountPath))
    ELSE requestedFilePath

\* Mutant of GuardPasses: the check is missing.
GuardAlwaysPasses(onDiskFilePath, dir) == TRUE

\* The directory-traversal check.
GuardPasses(onDiskFilePath, dir) == StartsWith(onDiskFilePath, dir.path)

\* The for loop from directory i on, up to its next await or its end:
\*   "stat"      fs.promises.stat(onDiskFilePath) is awaited for directory idx
\*   "reject"    the traversal check failed: return await next()
\*   "exhausted" the loop ended with file == null
RECURSIVE Iterate(_, _, _)
Iterate(ds, i, requestedFilePath) ==
    IF i > Len(ds)
    THEN [kind |-> "exhausted", idx |-> i, requestedFilePath |-> requestedFilePath,
          onDiskFilePath |-> <<>>]
    ELSE IF ds[i].hasMountPath /\ ~StartsWith(requestedFilePath, ds[i].mountPath)
    THEN Iterate(ds, i + 1, requestedFilePath)
    ELSE LET rfp == Stripped(ds[i], requestedFilePath)
             onDiskFilePath == join(ds[i].path, rfp)
         IN  IF ~GuardPasses(onDiskFilePath, ds[i])
             THEN [kind |-> "reject", idx |-> i, requestedFilePath |-> rfp,
                   onDiskFilePath |-> onDiskFilePath]
             ELSE [kind |-> "stat", idx |-> i, requestedFilePath |-> rfp,
                   onDiskFilePath |-> onDiskFilePath]

\* Mutant of CallNext: the status is set to 404 before the next handler runs.
CallNextWithStatus(q) ==
    [q EXCEPT !.pc = "done", !.outcome = "next", !.nextCalls = @ + 1,
              !.resp = [NoResponse EXCEPT !.statusCode = 404]]

\* return await next()
CallNext(q) == [q EXCEPT !.pc = "done", !.outcome = "next", !.nextCalls = @ + 1]

\* Mutant of Throw: the failure is swallowed and the call falls through.
ThrowFallsThrough(q) == CallNext(q)

\* An exception leaves execute: the call fails, nothing else happens.
Throw(q) == [q EXCEPT !.pc = "done", !.outcome = "error"]

\* The request after the loop ran from directory i to its next await.
AfterIterate(q, i) ==
    LET it == Iterate(dirs, i, q.requestedFilePath)
        q2 == [q EXCEPT !.requestedFilePath = it.requestedFilePath,
                        !.dirIdx = it.idx,
                        !.onDiskFilePath = it.onDiskFilePath]
    IN  IF it.kind = "stat" THEN [q2 EXCEPT !.pc = "stat"]
        ELSE CallNext(q2)

\* ------------------------------------------------------------------------
\* execute: the steps between its awaits
\* ------------------------------------------------------------------------

\* A call of execute, up to its first await: the method check, the path,
\* the cache lookup and, on a miss, the start of the directory iteration.
Begin(r, method, rawPath) ==
    /\ Quiet
    /\ req[r].pc = "idle"
    /\ \A s \in Reqs : s < r => req[s].pc # "idle"
    /\ Cardinality({s \in Reqs : req[s].pc # "idle"}) < limit
    /\ LET q0 == [IdleReq EXCEPT !.method = method, !.startVer = nChanges]
           decoded == decodeURIComponent(rawPath)
           requestedFilePath == normalize(decoded.value)
           q1 == [q0 EXCEPT !.path = requestedFilePath,
                            !.requestedFilePath = requestedFilePath]
       IN  req' = [req EXCEPT ![r] =
                IF method # "GET" /\ method # "HEAD" THEN CallNext(q0)
                ELSE IF ~decoded.ok THEN Throw(q0)
                ELSE IF basename(requestedFilePath) = <<".">> THEN CallNext(q1)
                ELSE IF requestedFilePath \in DOMAIN fileDataCache
                THEN [q1 EXCEPT !.file = fileDataCache[requestedFilePath],
                                !.hit = TRUE, !.pc = "restat"]
                ELSE AfterIterate(q1, 1)]
    /\ UNCHANGED <<dirs, enableGzip, limit, disk, nChanges, files, fileDataCache, busted>>

\* fs.promises.stat(onDiskFilePath) of the iteration reads the disk.
LoopStat(r) ==
    /\ Quiet
    /\ req[r].pc = "stat"
    /\ req' = [req EXCEPT ![r].stats = Stat(disk, req[r].onDiskFilePath),
                          ![r].statted = Append(@, req[r].dirIdx),
                          ![r].pc = "statted"]
    /\ UNCHANGED <<dirs, enableGzip, limit, disk, nChanges, files, fileDataCache, busted>>

\* Mutant of NewFile: a call that overwrites a cache slot does not look up
\* the type again.
NewFileUntypedOverwrite(q) ==
    [ onDiskFilePath |-> q.onDiskFilePath,
      modifiedDate |-> DateOf(q.stats.mtimeMs),
      size |-> q.stats.size,
      stats |-> q.stats,
      type |-> IF q.requestedFilePath \in DOMAIN fileDataCache
               THEN "application/octet-stream"
               ELSE mimeType(q.onDiskFilePath),
      dirIdx |-> q.dirIdx ]

\* The file data created from the stats of the iteration.  dirIdx records
\* which directory resolved it.
NewFile(q) ==
    [ onDiskFilePath |-> q.onDiskFilePath,
      modifiedDate |-> DateOf(q.stats.mtimeMs),
      size |-> q.stats.size,
      stats |-> q.stats,
      type |-> mimeType(q.onDiskFilePath),
      dirIdx |-> q.dirIdx ]

\* The key the new file data is stored under.
CacheKey(q) == q.requestedFilePath

\* The file objects still referred to once the call in slot r lets go of
\* its own and the cache slot of key is overwritten; the rest is garbage.
LiveFiles(r, key) ==
    {fileDataCache[k] : k \in DOMAIN fileDataCache \ {key}}
        \cup {req[s].file : s \in {t \in Reqs \ {r} : req[t].file # NoFile}}

\* The identity of the next object created for key: the first one free.
NewId(key, live) ==
    <<key, CHOOSE n \in 1 .. (Cardinality(live) + 1) :
              /\ <<key, n>> \notin live
              /\ \A m \in 1 .. (n - 1) : <<key, m>> \in live>>

\* Whether the iteration stops at the directory whose stats arrived.
Found(stats) == stats.ok /\ stats.isFile

\* The iteration goes on after its stat: continue with the next directory,
\* or create the file data, store it and break.
LoopCont(r) ==
    /\ Quiet
    /\ req[r].pc = "statted"
    /\ LET q == req[r] IN
       IF ~Found(q.stats)
       THEN /\ req' = [req EXCEPT ![r] = AfterIterate(q, q.dirIdx + 1)]
            /\ UNCHANGED <<files, fileDataCache>>
       ELSE LET live == LiveFiles(r, CacheKey(q))
                id == NewId(CacheKey(q), live)
            IN
            /\ files' = [i \in live \cup {id} |->
                            IF i = id THEN NewFile(q) ELSE files[i]]
            /\ fileDataCache' =
                 [k \in DOMAIN fileDataCache \cup {CacheKey(q)} |->
                     IF k = CacheKey(q) THEN id ELSE fileDataCache[k]]
            /\ req' = [req EXCEPT ![r].file = id, ![r].pc = "restat"]
    /\ UNCHANGED <<dirs, enableGzip, limit, disk, nChanges, busted>>

\* fs.promises.stat(file.onDiskFilePath) reads the disk.
ReStat(r) ==
    /\ Quiet
    /\ req[r].pc = "restat"
    /\ req' = [req EXCEPT ![r].stats = Stat(disk, files[req[r].file].onDiskFilePath),
                          ![r].pc = "restatted"]
    /\ UNCHANGED <<dirs, enableGzip, limit, disk, nChanges, files, fileDataCache, busted>>

\* Mutant of Refreshed: only the date is refreshed at once; size, stats and
\* type are left for later.
RefreshedDateFirst(file, stats) ==
    IF stats.mtimeMs # file.stats.mtimeMs
    THEN [file EXCEPT !.modifiedDate = DateOf(stats.mtimeMs)]
    ELSE file

\* Mutant of Refreshed: the refresh forgets the size.
RefreshedKeepsSize(file, stats) ==
    IF stats.mtimeMs # file.stats.mtimeMs
    THEN [file EXCEPT !.modifiedDate = DateOf(stats.mtimeMs),
                      !.stats = stats,
                      !.type = mimeType(file.onDiskFilePath)]
    ELSE file

\* The file data after the modified-date check against the new stats.
Refreshed(file, stats) ==
    IF stats.mtimeMs # file.stats.mtimeMs
    THEN [file EXCEPT !.modifiedDate = DateOf(stats.mtimeMs),
                      !.size = stats.size,
                      !.stats = stats,
                      !.type = mimeType(file.onDiskFilePath)]
    ELSE file

\* Mutant of ShouldGzip: a file of exactly the threshold is compressed too.
ShouldGzipAtThreshold(file, acceptsGzip) ==
    acceptsGzip /\ (enableGzip /\ file.size >= GzipThreshold /\ isCompressible(file.type))

\* Whether the body is piped through gzip.
ShouldGzip(file, acceptsGzip) ==
    acceptsGzip /\ (enableGzip /\ file.size > GzipThreshold /\ isCompressible(file.type))

\* Mutant of Decide: the entity headers are set before the freshness check.
DecideHeadersFirst(file, method, isFresh, acceptsGzip) ==
    LET r1 == [NoResponse EXCEPT !.statusCode = 200,
                                 !.lastModified = file.modifiedDate,
                                 !.vary = enableGzip,
                                 !.contentType = file.type,
                                 !.contentLength = file.size,
                                 !.cacheControl = cacheControlHeader]
        r3 == [r1 EXCEPT !.body = "stream", !.bodyPath = file.onDiskFilePath]
    IN  IF isFresh THEN [r1 EXCEPT !.statusCode = 304]
        ELSE IF method = "HEAD" THEN r1
        ELSE IF acceptsGzip /\ (enableGzip /\ file.size > GzipThreshold /\ isCompressible(file.type))
        THEN [r3 EXCEPT !.contentLength = -1,
                        !.contentEncoding = "gzip",
                        !.body = "gzip"]
        ELSE r3

\* The response part of execute, on the response as it goes through the
\* setters in the order of the code.
Decide(file, method, isFresh, acceptsGzip) ==
    LET r1 == [NoResponse EXCEPT !.statusCode = 200,
                                 !.lastModified = file.modifiedDate,
                                 !.vary = enableGzip]
        r2 == [r1 EXCEPT !.contentType = file.type,
                         !.contentLength = file.size,
                         !.cacheControl = cacheControlHeader]
        r3 == [r2 EXCEPT !.body = "stream", !.bodyPath = file.onDiskFilePath]
    IN  IF isFresh THEN [r1 EXCEPT !.statusCode = 304]
        ELSE IF method = "HEAD" THEN r2
        ELSE IF ShouldGzip(file, acceptsGzip)
        THEN [r3 EXCEPT !.contentLength = -1,
                        !.contentEncoding = "gzip",
                        !.body = "gzip"]
        ELSE r3

\* The stats of the cached or new file data arrived: a failed stat throws
\* out of execute; otherwise the file data is refreshed and the response set.
Respond(r, isFresh, acceptsGzip) ==
    /\ Quiet
    /\ req[r].pc = "restatted"
    /\ LET q == req[r]
           file == files[q.file]
       IN  IF ~q.stats.ok
           THEN /\ req' = [req EXCEPT ![r] = Throw(q)]
                /\ UNCHANGED files
           ELSE /\ files' = [files EXCEPT ![q.file] = Refreshed(file, q.stats)]
                /\ req' = [req EXCEPT ![r] =
                     [q EXCEPT !.pc = "done", !.outcome = "served",
                               !.seenMtimeMs = file.stats.mtimeMs,
                               !.isFresh = isFresh, !.acceptsGzip = acceptsGzip,
                               !.resp = Decide(Refreshed(file, q.stats), q.method,
                                               isFresh, acceptsGzip)]]
    /\ UNCHANGED <<dirs, enableGzip, limit, disk, nChanges, fileDataCache, busted>>

\* The caller takes the outcome of a finished call.  File objects that
\* neither the cache nor a call in flight refers to are garbage.
Return(r) ==
    /\ req[r].pc = "done"
    /\ req' = [req EXCEPT ![r] = IdleReq]
    /\ LET live == {fileDataCache[k] : k \in DOMAIN fileDataCache}
                    \cup {req[s].file : s \in Reqs \ {r}}
       IN  files' = [i \in DOMAIN files \cap live |-> files[i]]
    /\ UNCHANGED <<dirs, enableGzip, limit, disk, nChanges, fileDataCache, busted>>

\* ------------------------------------------------------------------------
\* getCacheBustedPath
\* ------------------------------------------------------------------------

\* The loop of getCacheBustedPath from directory i on: filePath is
\* reassigned by the mount-point test; fs.statSync throws for a missing path.
RECURSIVE BustFrom(_, _, _, _)
BustFrom(ds, d, i, filePath) ==
    IF i > Len(ds)
    THEN [path |-> filePath, hasQuery |-> FALSE, mtime |-> 0, dirIdx |-> 0]
    ELSE IF ds[i].hasMountPath /\ ~StartsWith(filePath, ds[i].mountPath)
    THEN BustFrom(ds, d, i + 1, filePath)
    ELSE LET fp == Stripped(ds[i], filePath)
             stats == Stat(d, join(ds[i].path, fp))
         IN  IF stats.ok
             THEN [path |-> fp, hasQuery |-> TRUE,
                   mtime |-> 2 * DateOf(stats.mtimeMs), dirIdx |-> i]
             ELSE BustFrom(ds, d, i + 1, fp)

\* The result: path, and "?mtime=" + mtime when hasQuery (mtime in half
\* milliseconds: file.stats.mtimeMs as it is, stats.mtime.getTime() whole).
getCacheBustedPath(filePath) ==
    IF filePath \in DOMAIN fileDataCache
    THEN [path |-> filePath, hasQuery |-> TRUE,
          mtime |-> files[fileDataCache[filePath]].stats.mtimeMs, dirIdx |-> 0]
    ELSE BustFrom(dirs, disk, 1, filePath)

\* The paths getCacheBustedPath is called with.
BustInputs == {XCss, MountA \o XCss, YPng}

\* Mutant of GetCacheBustedPath: a path that was statted is remembered in
\* the cache.
GetCacheBustedPathPopulates(filePath) ==
    /\ Quiet
    /\ \A r \in Reqs : req[r].pc = "idle"
    /\ LET res == getCacheBustedPath(filePath)
           id == <<res.path, 1>>
           onDisk == join(dirs[res.dirIdx].path, res.path)
           stats == Stat(disk, onDisk)
       IN  /\ busted' = [called |-> TRUE, input |-> filePath, path |-> res.path,
                         hasQuery |-> res.hasQuery, mtime |-> res.mtime,
                         dirIdx |-> res.dirIdx]
           /\ IF res.dirIdx > 0 /\ res.path \notin DOMAIN fileDataCache
              THEN /\ fileDataCache' =
                        [k \in DOMAIN fileDataCache \cup {res.path} |->
                            IF k = res.path THEN id ELSE fileDataCache[k]]
                   /\ files' =
                        [i \in DOMAIN files \cup {id} |->
                            IF i = id
                            THEN [onDiskFilePath |-> onDisk,
                                  modifiedDate |-> DateOf(stats.mtimeMs),
                                  size |-> stats.size, stats |-> stats,
                                  type |-> mimeType(onDisk), dirIdx |-> res.dirIdx]
                            ELSE files[i]]
              ELSE UNCHANGED <<files, fileDataCache>>
    /\ UNCHANGED <<dirs, enableGzip, limit, disk, nChanges, req>>

GetCacheBustedPath(filePath) ==
    /\ Quiet
    /\ \A r \in Reqs : req[r].pc = "idle"
    /\ LET res == getCacheBustedPath(filePath) IN
       busted' = [called |-> TRUE, input |-> filePath, path |-> res.path,
                  hasQuery |-> res.hasQuery, mtime |-> res.mtime, dirIdx |-> res.dirIdx]
    /\ UNCHANGED <<dirs, enableGzip, limit, disk, nChanges, files, fileDataCache, req>>

\* The caller takes the result.
ReturnBusted ==
    /\ busted.called
    /\ busted' = NoBusted
    /\ UNCHANGED <<dirs, enableGzip, limit, disk, nChanges, files, fileDataCache, req>>

\* ------------------------------------------------------------------------
\* The environment: files change on disk
\* ------------------------------------------------------------------------

WriteFile(f, m, s) ==
    /\ Quiet
    /\ nChanges < MaxFsChanges
    /\ disk[f] # RegularFile(m, s)
    /\ disk' = [disk EXCEPT ![f] = RegularFile(m, s)]
    /\ nChanges' = nChanges + 1
    /\ UNCHANGED <<dirs, enableGzip, limit, files, fileDataCache, req, busted>>

RemoveFile(f) ==
    /\ Quiet
    /\ nChanges < MaxFsChanges
    /\ disk[f].kind # "none"
    /\ disk' = [disk EXCEPT ![f] = Absent]
    /\ nChanges' = nChanges + 1
    /\ UNCHANGED <<dirs, enableGzip, limit, files, fileDataCache, req, busted>>

\* A directory takes the place of whatever the path held.
MakeDir(f) ==
    /\ Quiet
    /\ nChanges < MaxFsChanges
    /\ disk[f].kind # "dir"
    /\ disk' = [disk EXCEPT ![f] = Directory(MaxMtime)]
    /\ nChanges' = nChanges + 1
    /\ UNCHANGED <<dirs, enableGzip, limit, files, fileDataCache, req, busted>>

\* ------------------------------------------------------------------------
\* Specification
\* ------------------------------------------------------------------------

Next ==
    \/ \E r \in Reqs, method \in Methods, rawPath \in RawPaths : Begin(r, method, rawPath)
    \/ \E r \in Reqs : LoopStat(r)
    \/ \E r \in Reqs : LoopCont(r)
    \/ \E r \in Reqs : ReStat(r)
    \/ \E r \in Reqs, isFresh \in BOOLEAN, acceptsGzip \in BOOLEAN : Respond(r, isFresh, acceptsGzip)
    \/ \E r \in Reqs : Return(r)
    \/ \E filePath \in BustInputs : GetCacheBustedPath(filePath)
    \/ ReturnBusted
    \/ \E f \in Changing, m \in Mtimes, s \in Sizes : WriteFile(f, m, s)
    \/ \E f \in Changing : RemoveFile(f)
    \/ \E f \in Changing : MakeDir(f)

Spec == Init /\ [][Next]_vars

\* ------------------------------------------------------------------------
\* Specification of overlapping calls
\* ------------------------------------------------------------------------

\* The requests of the overlapping calls: GET of one file, by its plain
\* path and by its path under the mount point.
RacePaths == {XCss, MountA \o XCss}

\* As Init, with two calls of execute allowed in flight at once.
InitRace ==
    /\ dirs \in {DirsPlain, DirsMixed}
    /\ enableGzip = TRUE
    /\ limit = 2
    /\ disk \in [DiskFiles -> {Absent, RegularFile(0, GzipThreshold + 1)}]
    /\ \A f \in DiskFiles \ {FileRX} : disk[f] # Absent
    /\ nChanges = 0
    /\ files = [id \in {} |-> 0]
    /\ fileDataCache = [k \in {} |-> 0]
    /\ req = [r \in Reqs |-> IdleReq]
    /\ busted = NoBusted

\* The steps of execute and of the disk; a call is suspended at each await
\* and any step of the other call or of the disk can come in between.
NextRace ==
    \/ \E r \in Reqs, rawPath \in RacePaths : Begin(r, "GET", rawPath)
    \/ \E r \in Reqs : LoopStat(r)
    \/ \E r \in Reqs : LoopCont(r)
    \/ \E r \in Reqs : ReStat(r)
    \/ \E r \in Reqs : Respond(r, FALSE, FALSE)
    \/ \E r \in Reqs : Return(r)
    \/ \E m \in Mtimes, s \in Sizes : WriteFile(FileRX, m, s)
    \/ RemoveFile(FileRX)
    \/ MakeDir(FileRX)

SpecRace == InitRace /\ [][NextRace]_vars

\* ------------------------------------------------------------------------
\* The middleware of version 1 (src/classes/FritterStaticMiddleware.ts):
\* dirs is a list of paths without mount points, the file data carries the
\* md5 of the file, read with fs.promises.readFile
\* ------------------------------------------------------------------------

\* options.dirs of version 1.
DirsV1 == {<<RootR, RootS>>, <<RootR, RootRS, RootS>>}

InitV1 ==
    /\ dirs \in DirsV1
    /\ enableGzip \in BOOLEAN
    /\ limit = 1
    /\ disk \in [DiskFiles -> {Absent, RegularFile(0, GzipThreshold + 1)}]
    /\ \A f \in DiskFiles \ {FileRX} : disk[f] # Absent
    /\ nChanges = 0
    /\ files = [id \in {} |-> 0]
    /\ fileDataCache = [k \in {} |-> 0]
    /\ req = [r \in Reqs |-> IdleReq]
    /\ busted = NoBusted

\* crypto.createHash("md5") of what the file holds: every write of the model
\* gives the file another content, named by its time and size.
Md5(content) == content.mtimeMs * (GzipThreshold + 2) + content.size

\* The response of version 1 before execute has touched it.
NoResponseV1 == NoResponse @@ [entityTag |-> -1, contentMD5 |-> -1]

\* The for loop of version 1 from directory i on, up to its next await or
\* its end.
IterateV1(ds, i, requestedFilePath) ==
    IF i > Len(ds)
    THEN [kind |-> "exhausted", idx |-> i, onDiskFilePath |-> <<>>]
    ELSE LET onDiskFilePath == join(ds[i], requestedFilePath)
         IN  IF ~StartsWith(onDiskFilePath, ds[i])
             THEN [kind |-> "reject", idx |-> i, onDiskFilePath |-> onDiskFilePath]
             ELSE [kind |-> "stat", idx |-> i, onDiskFilePath |-> onDiskFilePath]

\* The request after the loop ran from directory i to its next await: at
\* the end of the loop, next() when no directory gave file data.
AfterIterateV1(q, i) ==
    LET it == IterateV1(dirs, i, q.requestedFilePath)
        q2 == [q EXCEPT !.dirIdx = it.idx, !.onDiskFilePath = it.onDiskFilePath]
    IN  IF it.kind = "stat" THEN [q2 EXCEPT !.pc = "stat"]
        ELSE IF it.kind = "reject" THEN CallNext(q2)
        ELSE IF q.file = NoFile THEN CallNext(q2)
        ELSE [q2 EXCEPT !.pc = "restat"]

\* A call of execute of version 1, up to its first await.
BeginV1(r, method, rawPath) ==
    /\ Quiet
    /\ req[r].pc = "idle"
    /\ \A s \in Reqs : s < r => req[s].pc # "idle"
    /\ Cardinality({s \in Reqs : req[s].pc # "idle"}) < limit
    /\ LET q0 == [IdleReq EXCEPT !.method = method, !.startVer = nChanges,
                                 !.resp = NoResponseV1]
           decoded == decodeURIComponent(rawPath)
           requestedFilePath == normalize(decoded.value)
           q1 == [q0 EXCEPT !.path = requestedFilePath,
                            !.requestedFilePath = requestedFilePath]
       IN  req' = [req EXCEPT ![r] =
                IF method # "GET" /\ method # "HEAD" THEN CallNext(q0)
                ELSE IF ~decoded.ok THEN Throw(q0)
                ELSE IF basename(requestedFilePath) = <<".">> THEN CallNext(q1)
                ELSE IF requestedFilePath \in DOMAIN fileDataCache
                THEN [q1 EXCEPT !.file = fileDataCache[requestedFilePath],
                                !.hit = TRUE, !.pc = "restat"]
                ELSE AfterIterateV1(q1, 1)]
    /\ UNCHANGED <<dirs, enableGzip, limit, disk, nChanges, files, fileDataCache, busted>>

\* The iteration of version 1 after its stat: continue with the next
\* directory, or read the file for its md5.
LoopContV1(r) ==
    /\ Quiet
    /\ req[r].pc = "statted"
    /\ req' = [req EXCEPT ![r] =
                 IF ~Found(req[r].stats)
                 THEN AfterIterateV1(req[r], req[r].dirIdx + 1)
                 ELSE [req[r] EXCEPT !.pc = "readfile"]]
    /\ UNCHANGED <<dirs, enableGzip, limit, disk, nChanges, files, fileDataCache, busted>>

\* The file data of version 1.
NewFileV1(q, md5) == NewFile(q) @@ [md5 |-> md5]

\* fs.promises.readFile(onDiskFilePath) of the iteration returned or threw:
\* the file data is created and stored, and the loop goes on with the next
\* directory (there is no break).
ReadFileV1(r) ==
    /\ Quiet
    /\ req[r].pc = "readfile"
    /\ LET q == req[r]
           readable == Found(Stat(disk, q.onDiskFilePath))
           key == q.requestedFilePath
           live == LiveFiles(r, key)
           id == NewId(key, live)
       IN  IF ~readable
           THEN /\ req' = [req EXCEPT ![r] = Throw(q)]
                /\ UNCHANGED <<files, fileDataCache>>
           ELSE /\ files' = [i \in live \cup {id} |->
                               IF i = id
                               THEN NewFileV1(q, Md5(disk[Resolve(q.onDiskFilePath)]))
                               ELSE files[i]]
                /\ fileDataCache' =
                     [k \in DOMAIN fileDataCache \cup {key} |->
                         IF k = key THEN id ELSE fileDataCache[k]]
                /\ req' = [req EXCEPT ![r] =
                             AfterIterateV1([q EXCEPT !.file = id], q.dirIdx + 1)]
    /\ UNCHANGED <<dirs, enableGzip, limit, disk, nChanges, busted>>

\* The response part of version 1: that of Decide, with the entity tag
\* before the freshness check and Content-MD5 after it.
DecideV1(file, method, isFresh, acceptsGzip) ==
    [entityTag |-> file.md5, contentMD5 |-> IF isFresh THEN -1 ELSE file.md5]
        @@ Decide(file, method, isFresh, acceptsGzip)

\* The call in slot r responds from its file data.
ServeV1(q, file, isFresh, acceptsGzip) ==
    [q EXCEPT !.pc = "done", !.outcome = "served",
              !.isFresh = isFresh, !.acceptsGzip = acceptsGzip,
              !.resp = DecideV1(file, q.method, isFresh, acceptsGzip)]

\* The stats of the cached or new file data arrived: a failed stat throws,
\* a changed mtimeMs has the file read again, otherwise execute responds.
RespondV1(r, isFresh, acceptsGzip) ==
    /\ Quiet
    /\ req[r].pc = "restatted"
    /\ LET q == req[r]
           file == files[q.file]
       IN  req' = [req EXCEPT ![r] =
                IF ~q.stats.ok THEN Throw(q)
                ELSE IF q.stats.mtimeMs # file.stats.mtimeMs
                THEN [q EXCEPT !.pc = "reread", !.seenMtimeMs = file.stats.mtimeMs]
                ELSE ServeV1([q EXCEPT !.seenMtimeMs = file.stats.mtimeMs],
                             file, isFresh, acceptsGzip)]
    /\ UNCHANGED <<dirs, enableGzip, limit, disk, nChanges, files, fileDataCache, busted>>

\* fs.promises.readFile(file.onDiskFilePath) of the refresh returned or
\* threw: the file data takes the new md5 and the stats, and execute responds.
ReReadV1(r, isFresh, acceptsGzip) ==
    /\ Quiet
    /\ req[r].pc = "reread"
    /\ LET q == req[r]
           file == files[q.file]
           readable == Found(Stat(disk, file.onDiskFilePath))
           fresh == [file EXCEPT !.md5 = Md5(disk[Resolve(file.onDiskFilePath)]),
                                 !.modifiedDate = DateOf(q.stats.mtimeMs),
                                 !.size = q.stats.size,
                                 !.stats = q.stats,
                                 !.type = mimeType(file.onDiskFilePath)]
       IN  IF ~readable
           THEN /\ req' = [req EXCEPT ![r] = Throw(q)]
                /\ UNCHANGED files
           ELSE /\ files' = [files EXCEPT ![q.file] = fresh]
                /\ req' = [req EXCEPT ![r] = ServeV1(q, fresh, isFresh, acceptsGzip)]
    /\ UNCHANGED <<dirs, enableGzip, limit, disk, nChanges, fileDataCache, busted>>

NextV1 ==
    \/ \E r \in Reqs, method \in Methods, rawPath \in RawPaths : BeginV1(r, method, rawPath)
    \/ \E r \in Reqs : LoopStat(r)
    \/ \E r \in Reqs : LoopContV1(r)
    \/ \E r \in Reqs : ReadFileV1(r)
    \/ \E r \in Reqs : ReStat(r)
    \/ \E r \in Reqs, isFresh \in BOOLEAN, acceptsGzip \in BOOLEAN : RespondV1(r, isFresh, acceptsGzip)
    \/ \E r \in Reqs, isFresh \in BOOLEAN, acceptsGzip \in BOOLEAN : ReReadV1(r, isFresh, acceptsGzip)
    \/ \E r \in Reqs : Return(r)
    \/ \E f \in Changing, m \in Mtimes, s \in Sizes : WriteFile(f, m, s)
    \/ \E f \in Changing : RemoveFile(f)
    \/ \E f \in Changing : MakeDir(f)

SpecV1 == InitV1 /\ [][NextV1]_vars

\* ------------------------------------------------------------------------
\* Vocabulary of the properties
\* ------------------------------------------------------------------------

Done(r) == req[r].pc = "done"

Served(r) == Done(r) /\ req[r].outcome = "served"

\* Directory i is meant for request path p: it has no mountPath, or p
\* starts with it.
Applicable(i, p) == ~dirs[i].hasMountPath \/ StartsWith(p, dirs[i].mountPath)

\* The file of directory i that request path p names: p without the
\* directory's own mountPath, joined onto its root.
Candidate(i, p) ==
    join(dirs[i].path,
         IF dirs[i].hasMountPath THEN Slice(p, Len(dirs[i].mountPath)) ELSE p)

\* Path p is the directory root or lies below it.
InsideRoot(p, root) ==
    LET top == StripTrailing(normalize(root))
    IN  p = top \/ StartsWith(p, top \o <<"/">>)

\* The status and the headers of a response, without its body.
Headers(resp) ==
    [ statusCode |-> resp.statusCode, lastModified |-> resp.lastModified,
      vary |-> resp.vary, contentType |-> resp.contentType,
      contentLength |-> resp.contentLength, cacheControl |-> resp.cacheControl,
      contentEncoding |-> resp.contentEncoding ]

Min(S) == CHOOSE x \in S : \A y \in S : x <= y

\* ------------------------------------------------------------------------
\* C1  Traversal safety
\* ------------------------------------------------------------------------

\* C1: every file data execute creates, and every body it attaches, has an
\* on-disk path inside the root of the directory that resolved it.
TraversalSafety ==
    /\ \A id \in DOMAIN files :
          InsideRoot(files[id].onDiskFilePath, dirs[files[id].dirIdx].path)
    /\ \A r \in Reqs :
          Served(r) /\ req[r].resp.body # "none" =>
             InsideRoot(req[r].resp.bodyPath, dirs[files[req[r].file].dirIdx].path)

\* ------------------------------------------------------------------------
\* C2  Mount-prefix isolation
\* ------------------------------------------------------------------------

\* C2: a request served from a directory with a mountPath has a normalized
\* path that starts with that mountPath, and the file served is the
\* directory's file for that path.
MountPrefixIsolation ==
    \A r \in Reqs :
       Served(r) =>
          LET i == files[req[r].file].dirIdx IN
          dirs[i].hasMountPath =>
             /\ StartsWith(req[r].path, dirs[i].mountPath)
             /\ files[req[r].file].onDiskFilePath = Candidate(i, req[r].path)

\* ------------------------------------------------------------------------
\* C3  Mount priority
\* ------------------------------------------------------------------------

\* The directories meant for p whose file for p lies inside their root and
\* is a regular file on disk.
Holders(p) ==
    {i \in 1 .. Len(dirs) :
        /\ Applicable(i, p)
        /\ InsideRoot(Candidate(i, p), dirs[i].path)
        /\ Found(Stat(disk, Candidate(i, p)))}

\* C3: a call that missed the cache, during which the disk did not change,
\* for a path that is a regular file under two or more applicable
\* directories, serves the file of the earliest of them and stats no later one.
MountPriority ==
    \A r \in Reqs :
       (/\ Done(r)
        /\ req[r].outcome \in {"served", "next"}
        /\ req[r].path # <<>>
        /\ ~req[r].hit
        /\ req[r].startVer = nChanges
        /\ Cardinality(Holders(req[r].path)) >= 2)
       => LET first == Min(Holders(req[r].path)) IN
          /\ req[r].outcome = "served"
          /\ files[req[r].file].dirIdx = first
          /\ files[req[r].file].onDiskFilePath = Candidate(first, req[r].path)
          /\ \A k \in 1 .. Len(req[r].statted) : req[r].statted[k] <= first

\* ------------------------------------------------------------------------
\* C4  Cache coherence
\* ------------------------------------------------------------------------

\* C4: a served response carries the Last-Modified of the stat of its own
\* request; when that stat shows another modification time than the file
\* data held, the size and type of the response are those of that stat and
\* the cache entry holds them afterwards.
CacheCoherence ==
    \A r \in Reqs :
       Served(r) =>
          LET q == req[r]
              f == files[q.file]
          IN  /\ q.resp.lastModified = DateOf(q.stats.mtimeMs)
              /\ q.hit => fileDataCache[q.path] = q.file
              /\ q.stats.mtimeMs # q.seenMtimeMs =>
                    /\ q.resp.contentLength # -1 => q.resp.contentLength = q.stats.size
                    /\ q.resp.contentType # "" => q.resp.contentType = mimeType(f.onDiskFilePath)
                    /\ \E k \in DOMAIN fileDataCache : fileDataCache[k] = q.file
                    /\ f.size = q.stats.size
                    /\ f.modifiedDate = DateOf(q.stats.mtimeMs)
                    /\ f.stats = q.stats
                    /\ f.type = mimeType(f.onDiskFilePath)

\* A cache hit whose stat shows a new modification time and a new size
\* (files start above the threshold), answered with that size.
CacheCoherenceWitness ==
    \E r \in Reqs :
       /\ Served(r)
       /\ req[r].hit
       /\ req[r].stats.mtimeMs # req[r].seenMtimeMs
       /\ req[r].stats.size = GzipThreshold
       /\ req[r].resp.contentLength = GzipThreshold

\* ------------------------------------------------------------------------
\* C5  Cache keying
\* ------------------------------------------------------------------------

\* C5: once a call that missed the cache has created file data, the cache
\* holds that file data under the normalized request path of the call.
CacheKeyedByRequestPath ==
    \A r \in Reqs :
       (~req[r].hit /\ req[r].file # NoFile) =>
          /\ req[r].path \in DOMAIN fileDataCache
          /\ fileDataCache[req[r].path] = req[r].file

\* ------------------------------------------------------------------------
\* C6  HEAD semantics
\* ------------------------------------------------------------------------

\* C6: a served HEAD has the status and headers of the GET with the same
\* request headers on the same file data, and no body.
HeadSameAsGet ==
    \A r \in Reqs :
       (Served(r) /\ req[r].method = "HEAD") =>
          /\ req[r].resp.body = "none"
          /\ Headers(req[r].resp) =
                Headers(Decide(files[req[r].file], "GET", req[r].isFresh, req[r].acceptsGzip))

\* ------------------------------------------------------------------------
\* C7  Compression decision
\* ------------------------------------------------------------------------

\* C7: a non-fresh GET is gzip-encoded exactly when gzip is enabled, the
\* size is above 1024, the type is compressible and the client accepts
\* gzip; otherwise it has Content-Length = size, no Content-Encoding and the
\* raw stream.  A file of exactly 1024 bytes is not compressed.
CompressionDecision ==
    \A r \in Reqs :
       (Served(r) /\ req[r].method = "GET" /\ ~req[r].isFresh) =>
          LET q == req[r]
              f == files[q.file]
              gz == /\ enableGzip
                    /\ f.size > 1024
                    /\ isCompressible(f.type)
                    /\ q.acceptsGzip
          IN  /\ q.resp.bodyPath = f.onDiskFilePath
              /\ f.size = 1024 => q.resp.body = "stream"
              /\ IF gz
                 THEN /\ q.resp.contentEncoding = "gzip"
                      /\ q.resp.contentLength = -1
                      /\ q.resp.body = "gzip"
                 ELSE /\ q.resp.contentEncoding = ""
                      /\ q.resp.contentLength = f.size
                      /\ q.resp.body = "stream"

\* A compressible file of exactly 1024 bytes, gzip enabled and accepted,
\* served uncompressed.
CompressionDecisionWitness ==
    \E r \in Reqs :
       /\ Served(r) /\ req[r].method = "GET" /\ ~req[r].isFresh
       /\ enableGzip /\ req[r].acceptsGzip
       /\ files[req[r].file].type = "text/css"
       /\ files[req[r].file].size = 1024
       /\ req[r].resp.body = "stream"
       /\ req[r].resp.contentLength = 1024

\* ------------------------------------------------------------------------
\* C8  Conditional response
\* ------------------------------------------------------------------------

\* C8: a fresh request ends with 304, no body and none of Content-Type,
\* Content-Length, Cache-Control, Content-Encoding, with Last-Modified set;
\* a GET that is not fresh ends with 200 and a body.
ConditionalResponse ==
    \A r \in Reqs :
       Served(r) =>
          LET q == req[r] IN
          /\ q.isFresh =>
                /\ q.resp.statusCode = 304
                /\ q.resp.body = "none"
                /\ q.resp.contentType = ""
                /\ q.resp.contentLength = -1
                /\ q.resp.cacheControl = ""
                /\ q.resp.contentEncoding = ""
                /\ q.resp.lastModified = files[q.file].modifiedDate
                /\ q.resp.lastModified # -1
          /\ (~q.isFresh /\ q.method = "GET") =>
                /\ q.resp.statusCode = 200
                /\ q.resp.body # "none"

\* A fresh request answered 304.
ConditionalResponseWitness ==
    \E r \in Reqs :
       /\ Served(r) /\ req[r].isFresh
       /\ req[r].resp.statusCode = 304
       /\ req[r].resp.lastModified # -1

\* ------------------------------------------------------------------------
\* C9  Stale-entry stat failure
\* ------------------------------------------------------------------------

\* C9: the step of a call that hit the cache and whose stat of the cached
\* file failed ends the call with an error: next() is not called, no
\* directory is statted, the response is untouched and the cache and its
\* file data stay as they were.
StaleEntryStatFailure ==
    [][\A r \in Reqs :
          (/\ req[r].pc = "restatted"
           /\ req[r].hit
           /\ ~req[r].stats.ok
           /\ req'[r] # req[r])
          => /\ req'[r].pc = "done"
             /\ req'[r].outcome = "error"
             /\ req'[r].nextCalls = 0
             /\ req'[r].statted = <<>>
             /\ req'[r].resp = NoResponse
             /\ fileDataCache' = fileDataCache
             /\ files' = files
             /\ req[r].path \in DOMAIN fileDataCache'
             /\ fileDataCache'[req[r].path] = req[r].file]_vars

\* A call that hit the cache and failed on the stat of the cached file.
StaleEntryStatFailureWitness ==
    \E r \in Reqs :
       /\ Done(r) /\ req[r].hit /\ ~req[r].stats.ok
       /\ req[r].outcome = "error"
       /\ req[r].path \in DOMAIN fileDataCache

\* ------------------------------------------------------------------------
\* C10  getCacheBustedPath
\* ------------------------------------------------------------------------

\* The directories meant for p whose file for p can be statted.
Statable(p) ==
    {i \in 1 .. Len(dirs) : Applicable(i, p) /\ Stat(disk, Candidate(i, p)).ok}

\* C10: the result of getCacheBustedPath(p) is p + "?mtime=" + the
\* modification time in milliseconds of the first directory's candidate that
\* can be statted, or p unchanged when none can.
CacheBustedPathShape ==
    busted.called =>
       LET p == busted.input IN
       /\ busted.path = p
       /\ IF Statable(p) # {}
          THEN /\ busted.hasQuery
               /\ busted.mtime =
                     2 * DateOf(Stat(disk, Candidate(Min(Statable(p)), p)).mtimeMs)
          ELSE ~busted.hasQuery

\* ------------------------------------------------------------------------
\* C11  Per-key on-disk path stability
\* ------------------------------------------------------------------------

\* C11: a key the cache holds stays in the cache, and the onDiskFilePath
\* stored under it is the same after every step.
OnDiskPathStable ==
    [][\A k \in DOMAIN fileDataCache :
          /\ k \in DOMAIN fileDataCache'
          /\ files'[fileDataCache'[k]].onDiskFilePath =
                files[fileDataCache[k]].onDiskFilePath]_vars

\* ------------------------------------------------------------------------
\* C13  Directories are never served
\* ------------------------------------------------------------------------

\* C13: a response with status 200 and a body streams a path that the last
\* stat of its request (the stat of file.onDiskFilePath) saw as a regular
\* file.
NoDirectoryServed ==
    \A r \in Reqs :
       (/\ Served(r)
        /\ req[r].resp.statusCode = 200
        /\ req[r].resp.body # "none")
       => /\ req[r].resp.bodyPath = files[req[r].file].onDiskFilePath
          /\ req[r].stats.isFile

\* ------------------------------------------------------------------------
\* C14  Rejection ordering
\* ------------------------------------------------------------------------

\* The call in slot r stopped at a directory whose candidate failed the
\* directory-traversal check.
Rejected(r) ==
    /\ req[r].dirIdx \in 1 .. Len(dirs)
    /\ req[r].onDiskFilePath # <<>>
    /\ ~StartsWith(req[r].onDiskFilePath, dirs[req[r].dirIdx].path)

\* C14: no stat is issued for a candidate that fails the check; the call
\* that met one has ended with a single next(), has statted neither that
\* directory nor a later one and has created no file data.
RejectionStopsIteration ==
    \A r \in Reqs :
       /\ req[r].pc \in {"stat", "statted"} =>
             StartsWith(req[r].onDiskFilePath, dirs[req[r].dirIdx].path)
       /\ Rejected(r) =>
             /\ Done(r)
             /\ req[r].outcome = "next"
             /\ req[r].nextCalls = 1
             /\ req[r].file = NoFile
             /\ \A k \in 1 .. Len(req[r].statted) : req[r].statted[k] < req[r].dirIdx

\* A rejected call whose path is a regular file inside a later directory.
RejectionStopsIterationWitness ==
    \E r \in Reqs :
       /\ Rejected(r)
       /\ req[r].outcome = "next"
       /\ \E j \in (req[r].dirIdx + 1) .. Len(dirs) :
             /\ Applicable(j, req[r].path)
             /\ InsideRoot(Candidate(j, req[r].path), dirs[j].path)
             /\ Found(Stat(disk, Candidate(j, req[r].path)))

\* ------------------------------------------------------------------------
\* C15  Per-mount prefix test
\* ------------------------------------------------------------------------

\* The directories the call in slot r has statted.
Tried(r) == {req[r].statted[k] : k \in 1 .. Len(req[r].statted)}

\* C15: a directory whose stat is awaited is meant for the normalized
\* request path and its candidate is that path without the directory's own
\* mountPath, joined onto its root; of the directories before it, and of all
\* directories once the iteration has run out, exactly those meant for the
\* normalized request path were statted.
PrefixTestOnRequestPath ==
    \A r \in Reqs :
       /\ req[r].pc \in {"stat", "statted"} =>
             /\ Applicable(req[r].dirIdx, req[r].path)
             /\ req[r].onDiskFilePath = Candidate(req[r].dirIdx, req[r].path)
             /\ \A j \in 1 .. (req[r].dirIdx - 1) :
                   Applicable(j, req[r].path) <=> j \in Tried(r)
       /\ (Done(r) /\ req[r].outcome = "next" /\ req[r].dirIdx > Len(dirs)) =>
             \A j \in 1 .. Len(dirs) :
                Applicable(j, req[r].path) <=> j \in Tried(r)

\* ------------------------------------------------------------------------
\* C17  The cache changes only when a file is resolved or refreshed
\* ------------------------------------------------------------------------

\* C17: the step in which a call of execute calls next() and the step of a
\* call of getCacheBustedPath leave the cache and its file data as they
\* were, the call that calls next() has created no file data, and the only
\* step that changes the cache is the one that found a regular file in the
\* iteration (a call that goes on to respond).
CacheFrame ==
    [][/\ \A r \in Reqs :
             (req'[r].outcome = "next" /\ req[r].outcome # "next") =>
                /\ fileDataCache' = fileDataCache
                /\ files' = files
                /\ req'[r].file = NoFile
       /\ (busted'.called /\ ~busted.called) =>
             /\ fileDataCache' = fileDataCache
             /\ files' = files
       /\ fileDataCache' # fileDataCache =>
             \E r \in Reqs :
                /\ req[r].pc = "statted"
                /\ Found(req[r].stats)
                /\ req'[r].pc = "restat"]_vars

\* getCacheBustedPath has statted a path the cache does not hold, with
\* other paths cached.
CacheFrameWitness ==
    /\ busted.called
    /\ busted.hasQuery
    /\ busted.dirIdx > 0
    /\ DOMAIN fileDataCache # {}
    /\ busted.input \notin DOMAIN fileDataCache
    /\ busted.path \notin DOMAIN fileDataCache

\* ------------------------------------------------------------------------
\* C18  Exactly one outcome per request
\* ------------------------------------------------------------------------

\* C18: a call of execute calls next() at most once; a call that called
\* next() has left the response untouched, and a call that has set a
\* response field has not called next().
OneOutcome ==
    \A r \in Reqs :
       /\ req[r].nextCalls <= 1
       /\ req[r].nextCalls = 1 <=> req[r].outcome = "next"
       /\ req[r].outcome = "next" => req[r].resp = NoResponse
       /\ req[r].resp # NoResponse =>
             /\ req[r].nextCalls = 0
             /\ req[r].outcome = "served"

\* A call that went through the whole iteration, found no regular file and
\* called next() once, and before it a served call (its file data is cached).
OneOutcomeWitness ==
    \E r \in Reqs :
       /\ Done(r)
       /\ req[r].outcome = "next"
       /\ req[r].nextCalls = 1
       /\ Len(req[r].statted) = Len(dirs)
       /\ req[r].resp = NoResponse
       /\ DOMAIN fileDataCache # {}

\* ------------------------------------------------------------------------
\* C20  The traversal guard has no false rejections
\* ------------------------------------------------------------------------

\* C20: a call stopped by the directory-traversal check had a candidate
\* outside the root of the directory it was joined onto.
NoFalseRejection ==
    \A r \in Reqs :
       Rejected(r) =>
          ~InsideRoot(req[r].onDiskFilePath, dirs[req[r].dirIdx].path)

\* ------------------------------------------------------------------------
\* C12  First-request race
\* ------------------------------------------------------------------------

\* Calls r1 and r2 are in flight for the same path, both missed the cache
\* and both have written their file data into the cache.
BothWrote(r1, r2) ==
    /\ r1 # r2
    /\ req[r1].path = req[r2].path
    /\ ~req[r1].hit /\ ~req[r2].hit
    /\ req[r1].file # NoFile /\ req[r2].file # NoFile

\* Two file data describe the same file.
SameEntry(f, g) ==
    /\ f.onDiskFilePath = g.onDiskFilePath
    /\ f.size = g.size
    /\ f.type = g.type
    /\ f.modifiedDate = g.modifiedDate

\* What C12 says of r1 and r2: their file data are equal, the cache holds
\* file data equal to them, and the response of one describes the file data
\* of the other.
RaceIsBenign(r1, r2) ==
    LET f == files[req[r1].file]
        g == files[req[r2].file]
    IN  /\ SameEntry(f, g)
        /\ CacheKey(req[r1]) = CacheKey(req[r2])
        /\ CacheKey(req[r1]) \in DOMAIN fileDataCache
        /\ SameEntry(files[fileDataCache[CacheKey(req[r1])]], f)
        /\ Served(r1) =>
              /\ req[r1].resp.lastModified = g.modifiedDate
              /\ req[r1].resp.contentType = g.type
              /\ req[r1].resp.contentLength = g.size
              /\ req[r1].resp.bodyPath = g.onDiskFilePath

EntryFromOneStat ==
    \A id \in DOMAIN files :
       /\ files[id].stats.ok
       /\ files[id].size = files[id].stats.size
       /\ files[id].modifiedDate = DateOf(files[id].stats.mtimeMs)

\* One call has refreshed the file data that another call in flight holds
\* too, and that other call has a different stat result in hand.
EntryFromOneStatWitness ==
    \E r1, r2 \in Reqs :
       /\ r1 # r2
       /\ req[r1].file # NoFile
       /\ req[r1].file = req[r2].file
       /\ Served(r1)
       /\ req[r1].stats.mtimeMs # req[r1].seenMtimeMs
       /\ req[r2].pc = "restatted"
       /\ req[r2].stats.ok
       /\ req[r2].stats # files[req[r2].file].stats

\* ------------------------------------------------------------------------
\* C16  Directory priority in version 1
\* ------------------------------------------------------------------------

\* The directories of version 1 in which request path p is a regular file.
HoldersV1(p) ==
    {i \in 1 .. Len(dirs) :
        /\ InsideRoot(join(dirs[i], p), dirs[i])
        /\ Found(Stat(disk, join(dirs[i], p)))}

\* C16: a call of version 1 that missed the cache, during which the disk
\* did not change, for a path that is a regular file in two or more dirs,
\* leaves in the cache and serves the file data of the first of those dirs.
DirPriorityV1 ==
    \A r \in Reqs :
       (/\ Done(r)
        /\ req[r].path # <<>>
        /\ ~req[r].hit
        /\ req[r].startVer = nChanges
        /\ Cardinality(HoldersV1(req[r].path)) >= 2)
       => LET first == join(dirs[Min(HoldersV1(req[r].path))], req[r].path) IN
          /\ req[r].outcome = "served"
          /\ req[r].path \in DOMAIN fileDataCache
          /\ fileDataCache[req[r].path] = req[r].file
          /\ files[req[r].file].onDiskFilePath = first
          /\ req[r].resp.body # "none" => req[r].resp.bodyPath = first

====
